---- MODULE Spec2Model ----
(***************************************************************************)
(* Number-guess game front end (src/src/App.tsx): the App component's      *)
(* state, its three async handlers startGame / resetGame / submitGuess,    *)
(* the UI triggers that can call them, and the pure helpers readBody,      *)
(* toFeedback and labelFor.                                                *)
(*                                                                         *)
(* An async handler is modelled as two steps: the synchronous part up to   *)
(* `await fetch(...)`, which appends the request to `inflight`, and the    *)
(* continuation that runs when the response arrives.  The continuation     *)
(* reads no component state between its awaits (it uses only values        *)
(* captured by the closure when the handler was called) and performs all   *)
(* its setState calls in one synchronous run after `await readBody(res)`,  *)
(* so it is one atomic step.                                               *)
(***************************************************************************)
EXTENDS Integers, Sequences, FiniteSets, TLC

VARIABLES
    started,    \* useState(false)            App.tsx:44
    value,      \* useState<string>('')       App.tsx:45  (sequence of characters)
    error,      \* useState<string>('')       App.tsx:46  (spec: lastError)
    msg,        \* useState<string>('')       App.tsx:47  (spec: lastMessage)
    tries,      \* useState<number>(0)        App.tsx:48  (spec: guessCount)
    loading,    \* useState(false)            App.tsx:49  (spec: pending)
    finished,   \* useState(false)            App.tsx:50
    inflight,   \* requests issued by fetch() and not yet resumed, oldest first
    last,       \* observation: what the most recent step was
    seen        \* the transport's answer in the interpreter specification

vars == <<started, value, error, msg, tries, loading, finished, inflight, last, seen>>

----------------------------------------------------------------------------
(* Bounds of the model *)

\* No more than this many requests are outstanding at once.
MaxInFlight == 2

\* Guesses are issued only while tries is below this bound.
MaxTries == 2

----------------------------------------------------------------------------
(* JavaScript values *)

Undef    == [t |-> "undef", v |-> ""]
JNull    == [t |-> "null",  v |-> ""]
Num(s)   == [t |-> "num",   v |-> s]
Str(s)   == [t |-> "str",   v |-> s]

\* a ?? b
Coalesce(a, b) == IF a.t \in {"undef", "null"} THEN b ELSE a

\* typeof x === 'string' ? x : undefined
StringOrUndef(x) == IF x.t = "str" THEN x ELSE Undef

Feedback == {"TOO_HIGH", "TOO_LOW", "CORRECT"}

----------------------------------------------------------------------------
(* Text: a string is kept as a sequence of chunks so that trim() and       *)
(* includes() are computed; Join gives the string itself.                  *)

Whitespace == {" ", "\n"}

RECURSIVE TrimStart(_)
TrimStart(cs) ==
    IF cs # <<>> /\ Head(cs) \in Whitespace THEN TrimStart(Tail(cs)) ELSE cs

RECURSIVE TrimEnd(_)
TrimEnd(cs) ==
    IF cs # <<>> /\ cs[Len(cs)] \in Whitespace
    THEN TrimEnd(SubSeq(cs, 1, Len(cs) - 1))
    ELSE cs

\* String.prototype.trim
Trim(cs) == TrimEnd(TrimStart(cs))

RECURSIVE Join(_)
Join(cs) == IF cs = <<>> THEN "" ELSE Head(cs) \o Join(Tail(cs))

\* ct.includes(needle), needle being one chunk
Includes(cs, needle) == \E i \in 1..Len(cs) : cs[i] = needle

----------------------------------------------------------------------------
(* The transport's Response: fetch() either rejects (net) or resolves to a *)
(* response with a status, a content-type header that may be absent, and a *)
(* body stream that can be read once, as text or as JSON.                  *)

FieldNames == {"feedback", "message", "result", "error", "detail"}

NoFields == [f \in FieldNames |-> Undef]

\* What JSON.parse makes of the body text.
Unparseable == [kind |-> "unparseable", fields |-> NoFields]
JsonNull    == [kind |-> "null",        fields |-> NoFields]
JsonOther   == [kind |-> "other",       fields |-> NoFields]  \* number, string, array
Obj(fs)     == [kind |-> "object",      fields |-> fs]
NoData      == [kind |-> "undef",       fields |-> NoFields]  \* no `data` property

Body(text, json) == [text |-> text, json |-> json]

Header(cs) == [present |-> TRUE,  value |-> cs]
NoHeader   == [present |-> FALSE, value |-> <<>>]

Http(status, ct, body) ==
    [net |-> FALSE, status |-> status, ct |-> ct, body |-> body]

\* fetch() rejects: no response at all.
NetworkFailure ==
    [net |-> TRUE, status |-> 0, ct |-> NoHeader, body |-> Body(<<>>, Unparseable)]

\* Messages of the exceptions the platform raises.
FetchFailedMessage == "Failed to fetch"
BodyUsedMessage    == "body stream already read"

\* Response.ok
ResOk(res) == res.status >= 200 /\ res.status <= 299

----------------------------------------------------------------------------
(* readBody, App.tsx:8-27.  The result is what the promise settles to:     *)
(* kind "ok" / "err" are the two returned shapes, kind "throw" a rejection.*)

BodyOk(data, text) == [kind |-> "ok",    data |-> data,   text |-> text,  err |-> ""]
BodyErr(err)       == [kind |-> "err",   data |-> NoData, text |-> Undef, err |-> err]
BodyThrow(m)       == [kind |-> "throw", data |-> NoData, text |-> Undef, err |-> m]

\* `HTTP ${res.status}`
HttpStatusText(res) == "HTTP " \o ToString(res.status)

\* (await res.text()).trim() on a body that was or was not read before:
\* a second read rejects with a TypeError.
ResText(res, bodyUsed) ==
    IF bodyUsed THEN BodyThrow(BodyUsedMessage)
    ELSE BodyOk(NoData, Str(Join(Trim(res.body.text))))

\* Variant: the first of the three fields that holds a string.
ErrorFieldFirstString(j) ==
    Coalesce(Coalesce(StringOrUndef(j.fields["error"]),
                      StringOrUndef(j.fields["message"])),
             StringOrUndef(j.fields["detail"]))

\* j['error'] ?? j['message'] ?? j['detail']
ErrorField(j) ==
    Coalesce(Coalesce(j.fields["error"], j.fields["message"]), j.fields["detail"])

\* lines 24-25: const t = (await res.text()).trim(); err: t || `HTTP ...`
ErrFromText(res, bodyUsed) ==
    LET t == ResText(res, bodyUsed)
    IN  IF t.kind = "throw" THEN t
        ELSE BodyErr(IF t.text.v # "" THEN t.text.v ELSE HttpStatusText(res))

readBody(res) ==
    LET ct     == IF res.ct.present THEN res.ct.value ELSE <<>>
        isJson == Includes(ct, "application/json")
        j      == res.body.json
    IN  IF ResOk(res)
        THEN IF isJson
             THEN IF j.kind = "unparseable"
                  THEN BodyOk(NoData, Undef)          \* catch { return { ok: true } }
                  ELSE BodyOk(j, Undef)
             ELSE ResText(res, FALSE)
        ELSE IF isJson
             THEN IF j.kind \in {"unparseable", "null"}
                  \* res.json() rejects, or j['error'] throws on null: the empty
                  \* catch swallows it and the body has been consumed.
                  THEN ErrFromText(res, TRUE)
                  ELSE LET m == ErrorField(j)
                       IN  BodyErr(IF m.t = "str" THEN m.v ELSE HttpStatusText(res))
             ELSE ErrFromText(res, FALSE)

----------------------------------------------------------------------------
(* toFeedback and labelFor, App.tsx:29-41 *)

\* body.data?.f
Get(data, f) == IF data.kind = "object" THEN data.fields[f] ELSE Undef

\* The value compared with the three literals (App.tsx:30-34).
RawFeedback(body) ==
    Coalesce(Coalesce(Coalesce(Get(body.data, "feedback"),
                               StringOrUndef(Get(body.data, "message"))),
                      StringOrUndef(Get(body.data, "result"))),
             body.text)

\* Variant: every field is searched for a literal.
toFeedbackSearchAll(body) ==
    LET lit(x) == IF x.t = "str" /\ x.v \in Feedback THEN x ELSE Undef
        raw == Coalesce(Coalesce(Coalesce(lit(Get(body.data, "feedback")),
                                          lit(Get(body.data, "message"))),
                                 lit(Get(body.data, "result"))),
                        body.text)
    IN  IF raw.t = "str" /\ raw.v \in Feedback THEN raw ELSE JNull

\* Feedback | null
toFeedback(body) ==
    LET raw == RawFeedback(body)
    IN  IF raw.t = "str" /\ raw.v \in Feedback THEN raw ELSE JNull

labelFor(fb) ==
    IF fb = "TOO_HIGH" THEN "Too High"
    ELSE IF fb = "TOO_LOW" THEN "Too Low" ELSE "Correct"

----------------------------------------------------------------------------
(* The guess input: `value` is what the <input type="number"> reports, the *)
(* empty string or a decimal numeral, kept as a sequence of characters.    *)

isBlank(s) == Trim(s) = <<>>

Digits == {"0", "1", "2", "3", "4", "5", "6", "7", "8", "9"}

DigitVal(c) ==
    CASE c = "0" -> 0 [] c = "1" -> 1 [] c = "2" -> 2 [] c = "3" -> 3
      [] c = "4" -> 4 [] c = "5" -> 5 [] c = "6" -> 6 [] c = "7" -> 7
      [] c = "8" -> 8 [] c = "9" -> 9

\* Reads an unsigned decimal numeral: mant is the digits read as one integer,
\* scale the number of digits after the point (the numeral is mant / 10^scale).
RECURSIVE ReadDecimal(_, _, _, _)
ReadDecimal(cs, mant, scale, afterPoint) ==
    IF cs = <<>> THEN [mant |-> mant, scale |-> scale]
    ELSE IF Head(cs) = "."
         THEN ReadDecimal(Tail(cs), mant, scale, TRUE)
         ELSE ReadDecimal(Tail(cs), mant * 10 + DigitVal(Head(cs)),
                          IF afterPoint THEN scale + 1 ELSE scale, afterPoint)

RECURSIVE Pow10(_)
Pow10(k) == IF k = 0 THEN 1 ELSE 10 * Pow10(k - 1)

\* Number(value) for a non-blank decimal numeral with an optional minus sign.
Number(s) ==
    LET neg == Head(s) = "-"
        d   == ReadDecimal(IF neg THEN Tail(s) ELSE s, 0, 0, FALSE)
    IN  [mant |-> IF neg THEN 0 - d.mant ELSE d.mant, scale |-> d.scale]

NumberIsInteger(n) == n.mant % Pow10(n.scale) = 0

\* Variant: the upper bound excluded.
OutOfRangeUpperExcluded(n) ==
    \/ n.mant % Pow10(n.scale) # 0
    \/ n.mant < 0
    \/ n.mant >= 1000 * Pow10(n.scale)

\* !Number.isInteger(n) || n < 0 || n > 1000   (App.tsx:94)
OutOfRange(n) ==
    \/ ~NumberIsInteger(n)
    \/ n.mant < 0
    \/ n.mant > 1000 * Pow10(n.scale)

\* The values the user types in this model.
InputValues ==
    { <<>>, <<"0">>, <<"1", "0", "0", "0">>, <<"1", "0", "0", "1">>,
      <<"-", "1">>, <<"2", ".", "5">> }

----------------------------------------------------------------------------
(* Observation of the most recent step *)

Step(op, phase, outcome, fb) ==
    [op |-> op, phase |-> phase, outcome |-> outcome, fb |-> fb]

----------------------------------------------------------------------------
(* Requests in flight.  A request remembers what the handler's closure     *)
(* captured when it was called and uses after the await: for submitGuess   *)
(* the `tries` of that render.  (The number in the request body goes to    *)
(* the server only; no handler reads it again.)                            *)

Request(op, capturedTries) == [op |-> op, tries |-> capturedTries]

Remove(q, i) == SubSeq(q, 1, i - 1) \o SubSeq(q, i + 1, Len(q))

CanIssue == Len(inflight) < MaxInFlight

----------------------------------------------------------------------------
(* State after construction, App.tsx:44-50 *)

Init ==
    /\ started = FALSE
    /\ value = <<>>
    /\ error = ""
    /\ msg = ""
    /\ tries = 0
    /\ loading = FALSE
    /\ finished = FALSE
    /\ inflight = <<>>
    /\ last = Step("init", "none", "none", "none")
    /\ seen = NetworkFailure

----------------------------------------------------------------------------
(* Responses the transport delivers in the controller specification *)

JsonCt == Header(<<"application/json">>)
JsonCharsetCt == Header(<<"application/json", "; charset=utf-8">>)
TextCt == Header(<<"text/plain">>)

With(f, v) == [NoFields EXCEPT ![f] = v]

JsonBody(fs) == Body(<<"{json}">>, Obj(fs))
EmptyBody    == Body(<<>>, Unparseable)

Responses ==
    { NetworkFailure,
      Http(200, JsonCt, JsonBody(With("feedback", Str("TOO_LOW")))),
      Http(200, JsonCharsetCt, JsonBody(With("feedback", Str("CORRECT")))),
      Http(200, TextCt, Body(<<" ", "TOO_HIGH", "\n">>, Unparseable)),
      Http(200, JsonCt, EmptyBody),
      Http(200, NoHeader, Body(<<"ok">>, Unparseable)),
      Http(500, JsonCt, JsonBody(With("error", Str("session expired")))),
      Http(500, JsonCt, EmptyBody) }

----------------------------------------------------------------------------
(* Pieces of the handlers' continuations *)

\* await fetch(...) then await readBody(res)  (App.tsx:57-58, 75-76, 99-105):
\* a rejected fetch lands in the handler's catch like a rejected readBody.
Settle(res) == IF res.net THEN BodyThrow(FetchFailedMessage) ELSE readBody(res)

\* Variant: a fixed text instead of the failure's message.
CaughtMessageFixed(b) == "Request failed"

\* catch (e) { setError(e instanceof Error ? e.message : ...) }: e is either
\* new Error(b.err) or the TypeError of a rejected fetch / body read.
CaughtMessage(b) == b.err

\* Variant: the counter is not advanced.
newTriesNotAdvanced(capturedTries) == capturedTries

\* const newTries = tries + 1  (App.tsx:110), tries being the captured value
newTries(capturedTries) == capturedTries + 1

\* Variant: any recognised feedback ends the game.
FinishedAfterAnyFeedback(fb) == fb # JNull

\* setFinished(fb === 'CORRECT')  (App.tsx:109)
FinishedAfter(fb) == fb = Str("CORRECT")

\* App.tsx:113-119
GuessMessage(b, fb, n) ==
    IF fb # JNull
    THEN labelFor(fb.v) \o ". Total guess " \o ToString(n)
    ELSE LET raw == Coalesce(b.text,
                       Coalesce(Coalesce(Get(b.data, "message"), Get(b.data, "result")),
                                Str("Submitted.")))
         IN  raw.v \o ". Total guess " \o ToString(n)

\* Variant: setLoading(false) as the last statement of the try block.
LoadingAfterNoFinally(b) == b.kind # "ok"

\* finally { setLoading(false) }  (App.tsx:67-69, 126-128): runs whatever
\* readBody settled to.
LoadingAfter(b) == FALSE

\* Outcome kinds of the specification's vocabulary.
OutcomeOf(b, fb) ==
    IF b.kind # "ok" THEN "Error" ELSE IF fb # JNull THEN "Feedback" ELSE "Message"

----------------------------------------------------------------------------
(* startGame, App.tsx:53-70 *)

startGame ==
    /\ error' = ""
    /\ msg' = ""
    /\ loading' = TRUE
    /\ inflight' = Append(inflight, Request("start", 0))
    /\ last' = Step("start", "issue", "none", "none")
    /\ UNCHANGED <<started, value, tries, finished>>

\* Variant: setStarted(true) before the response is examined.
startGameResumeStartsAnyway(i, res) ==
    LET b == Settle(res)
    IN  /\ inflight[i].op = "start"
        /\ inflight' = Remove(inflight, i)
        /\ started' = TRUE
        /\ IF b.kind = "ok"
           THEN /\ finished' = FALSE
                /\ tries' = 0
                /\ value' = <<>>
                /\ UNCHANGED error
           ELSE /\ error' = CaughtMessage(b)
                /\ UNCHANGED <<finished, tries, value>>
        /\ loading' = LoadingAfter(b)
        /\ last' = Step("start", "apply", IF b.kind = "ok" THEN "Success" ELSE "Error",
                        "none")
        /\ UNCHANGED msg

startGameResume(i, res) ==
    LET b == Settle(res)
    IN  /\ inflight[i].op = "start"
        /\ inflight' = Remove(inflight, i)
        /\ IF b.kind = "ok"
           THEN /\ started' = TRUE
                /\ finished' = FALSE
                /\ tries' = 0
                /\ value' = <<>>
                /\ UNCHANGED error
           ELSE /\ error' = CaughtMessage(b)
                /\ UNCHANGED <<started, finished, tries, value>>
        /\ loading' = LoadingAfter(b)
        /\ last' = Step("start", "apply", IF b.kind = "ok" THEN "Success" ELSE "Error",
                        "none")
        /\ UNCHANGED msg

----------------------------------------------------------------------------
(* resetGame, App.tsx:72-86 *)

resetGame ==
    /\ error' = ""
    /\ inflight' = Append(inflight, Request("reset", 0))
    /\ last' = Step("reset", "issue", "none", "none")
    /\ UNCHANGED <<started, value, msg, tries, loading, finished>>

\* Variant: setTries(0) forgotten.
resetGameResumeKeepsTries(i, res) ==
    LET b == Settle(res)
    IN  /\ inflight[i].op = "reset"
        /\ inflight' = Remove(inflight, i)
        /\ IF b.kind = "ok"
           THEN /\ msg' = "Game reset. Counter set to 0."
                /\ value' = <<>>
                /\ finished' = FALSE
                /\ UNCHANGED <<error, tries>>
           ELSE /\ error' = CaughtMessage(b)
                /\ UNCHANGED <<msg, tries, value, finished>>
        /\ last' = Step("reset", "apply", IF b.kind = "ok" THEN "Success" ELSE "Error",
                        "none")
        /\ UNCHANGED <<started, loading>>

resetGameResume(i, res) ==
    LET b == Settle(res)
    IN  /\ inflight[i].op = "reset"
        /\ inflight' = Remove(inflight, i)
        /\ IF b.kind = "ok"
           THEN /\ msg' = "Game reset. Counter set to 0."
                /\ tries' = 0
                /\ value' = <<>>
                /\ finished' = FALSE
                /\ UNCHANGED error
           ELSE /\ error' = CaughtMessage(b)
                /\ UNCHANGED <<msg, tries, value, finished>>
        /\ last' = Step("reset", "apply", IF b.kind = "ok" THEN "Success" ELSE "Error",
                        "none")
        /\ UNCHANGED <<started, loading>>

----------------------------------------------------------------------------
(* submitGuess, App.tsx:88-129 *)

submitGuess ==
    /\ msg' = ""
    /\ IF isBlank(value)
       THEN /\ error' = "Please enter a number"
            /\ last' = Step("guess", "reject", "Validation", "none")
            /\ UNCHANGED <<loading, inflight>>
       ELSE IF OutOfRange(Number(value))
       THEN /\ error' = "Enter an integer between 0 and 1000"
            /\ last' = Step("guess", "reject", "Validation", "none")
            /\ UNCHANGED <<loading, inflight>>
       ELSE /\ error' = ""
            /\ loading' = TRUE
            /\ inflight' = Append(inflight, Request("guess", tries))
            /\ last' = Step("guess", "issue", "none", "none")
    /\ UNCHANGED <<started, value, tries, finished>>

submitGuessResume(i, res) ==
    LET b  == Settle(res)
        fb == toFeedback(b)
        n  == newTries(inflight[i].tries)
    IN  /\ inflight[i].op = "guess"
        /\ inflight' = Remove(inflight, i)
        /\ IF b.kind = "ok"
           THEN /\ finished' = FinishedAfter(fb)
                /\ tries' = n
                /\ msg' = GuessMessage(b, fb, n)
                /\ value' = <<>>
                /\ UNCHANGED error
           ELSE /\ error' = CaughtMessage(b)
                /\ UNCHANGED <<finished, tries, msg, value>>
        /\ loading' = LoadingAfter(b)
        /\ last' = Step("guess", "apply", OutcomeOf(b, fb),
                        IF b.kind = "ok" /\ fb # JNull THEN fb.v ELSE "none")
        /\ UNCHANGED started

----------------------------------------------------------------------------
(* The UI, App.tsx:131-177: which handler each control can call, and when  *)

\* <input onChange={e => setValue(e.target.value)}>, rendered once started
onChange(v) ==
    /\ started
    /\ value' = v
    /\ last' = Step("type", "none", "none", "none")
    /\ UNCHANGED <<started, error, msg, tries, loading, finished, inflight, seen>>

\* <button onClick={startGame} disabled={loading}>, rendered while !started
ClickStart == ~started /\ ~loading /\ CanIssue /\ startGame /\ UNCHANGED seen

\* <button onClick={resetGame}>, rendered once started, never disabled
ClickReset == started /\ CanIssue /\ resetGame /\ UNCHANGED seen

\* The bounds of the model, for a call of submitGuess that issues a request.
GuessWithinBounds ==
    \/ isBlank(value)
    \/ OutOfRange(Number(value))
    \/ (CanIssue /\ tries < MaxTries)

\* <button onClick={submitGuess} disabled={loading || isBlank(value)}>
ClickGuess ==
    started /\ ~loading /\ ~isBlank(value) /\ GuessWithinBounds
            /\ submitGuess /\ UNCHANGED seen

\* if (e.key === 'Enter' && !isBlank(value)) submitGuess()
onKeyDown ==
    started /\ ~isBlank(value) /\ GuessWithinBounds /\ submitGuess /\ UNCHANGED seen

\* A response (or the failure of the request) reaches the waiting handler.
StartDone ==
    \E i \in 1..Len(inflight), res \in Responses :
        startGameResume(i, res) /\ UNCHANGED seen
ResetDone ==
    \E i \in 1..Len(inflight), res \in Responses :
        resetGameResume(i, res) /\ UNCHANGED seen
GuessDone ==
    \E i \in 1..Len(inflight), res \in Responses :
        submitGuessResume(i, res) /\ UNCHANGED seen

Next ==
    \/ \E v \in InputValues : onChange(v)
    \/ ClickStart
    \/ ClickReset
    \/ ClickGuess
    \/ onKeyDown
    \/ StartDone
    \/ ResetDone
    \/ GuessDone

Spec == Init /\ [][Next]_vars

----------------------------------------------------------------------------
(* The interpreter specification: one user who waits for each answer, and  *)
(* a transport whose answer is any one response of AllResponses, drawn at  *)
(* the start and kept in `seen`, so that what readBody and toFeedback make *)
(* of it can be compared with the state the handler leaves.                *)

OkValues  == {Undef, JNull, Num("5"), Str("hello"), Str("TOO_LOW"), Str("CORRECT")}
ErrValues == {Undef, JNull, Num("5"), Str(""), Str("boom")}

OkObjects ==
    { [NoFields EXCEPT !["feedback"] = f, !["message"] = m, !["result"] = r] :
        f \in OkValues, m \in OkValues, r \in OkValues }

ErrObjects ==
    { [NoFields EXCEPT !["error"] = e, !["message"] = m, !["detail"] = d] :
        e \in ErrValues, m \in ErrValues, d \in ErrValues }

AllBodies ==
    { EmptyBody,
      Body(<<" ", "\n">>, Unparseable),
      Body(<<"TOO_LOW">>, Unparseable),
      Body(<<"\n", "CORRECT", " ">>, Unparseable),
      Body(<<"too_low">>, Unparseable),
      Body(<<"Bad", " ", "Gateway">>, Unparseable),
      Body(<<"null">>, JsonNull),
      Body(<<"42">>, JsonOther) }
    \cup { JsonBody(fs) : fs \in OkObjects \cup ErrObjects }

AllStatuses == {200, 404, 500}

AllContentTypes == {JsonCt, JsonCharsetCt, TextCt, NoHeader}

AllResponses ==
    { Http(st, ct, bd) : st \in AllStatuses, ct \in AllContentTypes, bd \in AllBodies }

\* The answer to a start request that opens the session.
StartOk == Http(200, JsonCt, EmptyBody)

InterpInit ==
    /\ started = FALSE
    /\ value = <<>>
    /\ error = ""
    /\ msg = ""
    /\ tries = 0
    /\ loading = FALSE
    /\ finished = FALSE
    /\ inflight = <<>>
    /\ last = Step("init", "none", "none", "none")
    /\ seen \in AllResponses

\* The transport answers a start request with `seen` or with StartOk ...
InterpStartDone ==
    \E i \in 1..Len(inflight), res \in {seen, StartOk} :
        startGameResume(i, res) /\ UNCHANGED seen

\* ... and every guess request with `seen`.
InterpGuessDone ==
    \E i \in 1..Len(inflight) :
        submitGuessResume(i, seen) /\ UNCHANGED seen

InterpNext ==
    \/ ClickStart
    \/ onChange(<<"0">>)
    \/ ClickGuess
    \/ InterpStartDone
    \/ InterpGuessDone

InterpSpec == InterpInit /\ [][InterpNext]_vars

\* Every start and guess request is answered or fails (the transport settles
\* each fetch); nothing is assumed about what the user does.
LiveSpec == Spec /\ WF_vars(StartDone) /\ WF_vars(GuessDone)

----------------------------------------------------------------------------
(* Vocabulary of the properties *)

\* The step just taken resumed a handler of `op` with its response.
Applied(op) == last'.op = op /\ last'.phase = "apply"

IsLiteral(x) == x.t = "str" /\ x.v \in {"TOO_LOW", "TOO_HIGH", "CORRECT"}

SeenJson == ~seen.net /\ Includes(seen.ct.value, "application/json")
SeenOk   == ~seen.net /\ seen.status \in 200..299
SeenFields == seen.body.json.fields

\* In the interpreter specification: the last step applied `seen` to a guess.
GuessAppliedSeen == last.op = "guess" /\ last.phase = "apply"

\* ... or applied `seen` as a failure to a start or a guess.
ErrorAppliedSeen == last.phase = "apply" /\ last.outcome = "Error"

----------------------------------------------------------------------------
\* C1: a guess outcome of kind Feedback or Message raises guessCount by
\* exactly 1 over its value immediately before the outcome is applied, and
\* an Error outcome leaves guessCount unchanged.
C1_CountedExactlyOnce ==
    [][ Applied("guess") =>
          IF last'.outcome \in {"Feedback", "Message"}
          THEN tries' = tries + 1
          ELSE tries' = tries ]_vars

\* C2: at most one request (start, reset or guess) is in flight.
C2_AtMostOneInFlight == Len(inflight) <= 1

\* C3: a guess with input that is blank, not an integer or outside [0,1000]
\* issues no request, sets lastError and leaves guessCount, finished, started
\* and pending unchanged; a guess with an integer in [0,1000], 0 and 1000
\* included, issues exactly one submit request.
C3_IntegersInRange == { <<"0">>, <<"1", "0", "0", "0">> }

C3_ValidationGatesTransport ==
    [][ (last'.op = "guess" /\ last'.phase \in {"issue", "reject"}) =>
          IF value \in C3_IntegersInRange
          THEN /\ last'.phase = "issue"
               /\ Len(inflight') = Len(inflight) + 1
               /\ SubSeq(inflight', 1, Len(inflight)) = inflight
               /\ inflight'[Len(inflight')].op = "guess"
          ELSE /\ last'.phase = "reject"
               /\ inflight' = inflight
               /\ error' # ""
               /\ tries' = tries
               /\ finished' = finished
               /\ started' = started
               /\ loading' = loading ]_vars

C3_Witness ==
    /\ last.phase = "reject"
    /\ value = <<"1", "0", "0", "1">>
    /\ error = "Enter an integer between 0 and 1000"
    /\ tries = 1
    /\ loading

\* C4: lastMessage and lastError are never both non-empty.
C4_MessageXorError == ~(msg # "" /\ error # "")

\* C5: issuing any of the three intents sets both lastMessage and lastError
\* to empty before the request is issued.
C5_IssueClearsBoth ==
    [][ last'.phase = "issue" => (msg' = "" /\ error' = "") ]_vars

\* C6: readBody never raises: whenever a response is turned into an Error
\* outcome, readBody returned a value for it.
C6_ReadBodyNeverRaises ==
    (ErrorAppliedSeen /\ ~seen.net) => readBody(seen).kind # "throw"

\* C7 as claimed: for a 2xx JSON response with a parseable object, the outcome
\* is Feedback(v) for the first of feedback, message, result whose value v is a
\* literal; a field holding another string does not stop the search.
C7_FirstLiteral ==
    IF IsLiteral(SeenFields["feedback"]) THEN SeenFields["feedback"]
    ELSE IF IsLiteral(SeenFields["message"]) THEN SeenFields["message"]
    ELSE IF IsLiteral(SeenFields["result"]) THEN SeenFields["result"]
    ELSE Undef

C7_JsonObjectGuess ==
    GuessAppliedSeen /\ SeenOk /\ SeenJson /\ seen.body.json.kind = "object"

C7_SearchSkipsNonLiterals ==
    (C7_JsonObjectGuess /\ C7_FirstLiteral # Undef) =>
        (last.outcome = "Feedback" /\ last.fb = C7_FirstLiteral.v)

\* C7 as amended: the outcome is decided by the first field that is present:
\* feedback when it is neither absent nor null (whatever its type), else
\* message when it is a string, else result when it is a string.  The outcome
\* is Feedback(v) exactly when that one value v is a literal; otherwise no
\* later field is looked at and the outcome is a Message.
C7_DecidingField ==
    IF SeenFields["feedback"].t \notin {"undef", "null"} THEN SeenFields["feedback"]
    ELSE IF SeenFields["message"].t = "str" THEN SeenFields["message"]
    ELSE IF SeenFields["result"].t = "str" THEN SeenFields["result"]
    ELSE Undef

C7_FirstPresentFieldDecides ==
    C7_JsonObjectGuess =>
        IF IsLiteral(C7_DecidingField)
        THEN /\ last.outcome = "Feedback"
             /\ last.fb = C7_DecidingField.v
             /\ finished = (C7_DecidingField.v = "CORRECT")
        ELSE /\ last.outcome = "Message"
             /\ ~finished

C7_Witness ==
    /\ C7_JsonObjectGuess
    /\ SeenFields["feedback"] = Str("hello")
    /\ SeenFields["message"] = Str("TOO_LOW")
    /\ last.outcome = "Message"
    /\ tries = 1

\* C8 as claimed: for a non-2xx JSON response with a parseable body the error
\* text is the first of error, message, detail that is a string, else the
\* trimmed body text, and "HTTP <status>" only when that text is empty.
C8_NonOkJsonParsed ==
    ErrorAppliedSeen /\ ~seen.net /\ ~SeenOk /\ SeenJson

C8_FirstString ==
    IF SeenFields["error"].t = "str" THEN SeenFields["error"]
    ELSE IF SeenFields["message"].t = "str" THEN SeenFields["message"]
    ELSE IF SeenFields["detail"].t = "str" THEN SeenFields["detail"]
    ELSE Undef

C8_FirstStringElseBodyText ==
    (C8_NonOkJsonParsed /\ seen.body.json.kind \in {"null", "other", "object"}) =>
        error = IF C8_FirstString # Undef THEN C8_FirstString.v
                ELSE IF Join(Trim(seen.body.text)) # "" THEN Join(Trim(seen.body.text))
                ELSE "HTTP " \o ToString(seen.status)

\* C8 as amended: for a non-2xx JSON response whose body parses to a value
\* other than null, the error text is the value of the first of error,
\* message, detail that is neither absent nor null, when that value is a
\* string; in every other case (that value is not a string, or all three are
\* absent or null) it is "HTTP <status>".  The body text is not used.
C8_FirstPresent ==
    IF SeenFields["error"].t \notin {"undef", "null"} THEN SeenFields["error"]
    ELSE IF SeenFields["message"].t \notin {"undef", "null"} THEN SeenFields["message"]
    ELSE SeenFields["detail"]

C8_FirstPresentStringElseStatus ==
    (C8_NonOkJsonParsed /\ seen.body.json.kind \in {"other", "object"}) =>
        error = IF C8_FirstPresent.t = "str" THEN C8_FirstPresent.v
                ELSE "HTTP " \o ToString(seen.status)

C8_Witness ==
    /\ C8_NonOkJsonParsed
    /\ last.op = "guess"
    /\ seen.status = 404
    /\ SeenFields["error"] = Num("5")
    /\ SeenFields["message"] = Str("boom")
    /\ error = "HTTP 404"

\* C9: finished changes from false to true only in the step that applies a
\* guess outcome Feedback = CORRECT.
C9_FinishedOnlyByCorrect ==
    [][ (~finished /\ finished') =>
          /\ Applied("guess")
          /\ last'.outcome = "Feedback"
          /\ last'.fb = "CORRECT" ]_vars

C9_Witness ==
    /\ finished
    /\ last = Step("guess", "apply", "Feedback", "CORRECT")
    /\ msg = "Correct. Total guess 2"

\* C10: every start and guess that sets pending is followed by pending being
\* cleared when its request completes, on every exit path (success, non-2xx,
\* network failure, exception while reading the body); a guess rejected by
\* validation leaves pending as it was.
C10_PendingCleared ==
    /\ loading ~> ~loading
    /\ [][ (Applied("start") \/ Applied("guess")) => ~loading' ]_vars
    /\ [][ last'.phase = "reject" => loading' = loading ]_vars

C10_Witness ==
    /\ last = Step("guess", "apply", "Error", "none")
    /\ error = BodyUsedMessage
    /\ ~loading
    /\ inflight = <<>>

----------------------------------------------------------------------------
\* The texts a failed request leaves in lastError under the responses of the
\* controller specification: a rejected fetch, the error field of the 500
\* response, a rejected body read.
FailureTexts == {"Failed to fetch", "session expired", "body stream already read"}

\* C11 as claimed: a successful reset leaves guessCount = 0, finished = false,
\* lastMessage and lastError empty and started true; a failed reset sets
\* lastError to the failure text and leaves guessCount and finished unchanged.
C11_ResetClearsMessages ==
    [][ Applied("reset") =>
          IF last'.outcome = "Success"
          THEN tries' = 0 /\ ~finished' /\ started' /\ msg' = "" /\ error' = ""
          ELSE error' \in FailureTexts /\ tries' = tries /\ finished' = finished ]_vars

\* C11 as amended: a successful reset leaves guessCount = 0, finished = false
\* and started true, sets lastMessage to "Game reset. Counter set to 0." and
\* does not touch lastError, which the reset emptied when it was issued; a
\* failed reset sets lastError to the failure text and leaves guessCount and
\* finished unchanged.
C11_ResetAnnouncesItself ==
    /\ [][ (last'.op = "reset" /\ last'.phase = "issue") => error' = "" ]_vars
    /\ [][ Applied("reset") =>
             IF last'.outcome = "Success"
             THEN /\ tries' = 0 /\ ~finished' /\ started'
                  /\ msg' = "Game reset. Counter set to 0."
                  /\ error' = error
             ELSE /\ error' \in FailureTexts
                  /\ tries' = tries /\ finished' = finished ]_vars

C11_Witness ==
    /\ last = Step("reset", "apply", "Success", "none")
    /\ tries = 0
    /\ ~finished
    /\ started
    /\ msg = "Game reset. Counter set to 0."
    /\ error = ""
    /\ inflight = <<>>

----------------------------------------------------------------------------
\* C12: a guess whose outcome is Error sets lastError to the error text,
\* leaves lastMessage empty and leaves started, finished and guessCount as
\* they were before the guess.
C12_ErrorLeavesSessionAlone ==
    [][ (Applied("guess") /\ last'.outcome = "Error") =>
          /\ error' \in FailureTexts
          /\ msg' = ""
          /\ started' = started
          /\ finished' = finished
          /\ tries' = tries ]_vars

\* C13: a guess whose outcome is Feedback(fb) sets guessCount to its previous
\* value plus 1, finished to (fb = CORRECT) and lastMessage to
\* "<label>. Total guess <N>", N being the guessCount stored by that step.
C13_Label(fb) ==
    CASE fb = "TOO_HIGH" -> "Too High"
      [] fb = "TOO_LOW"  -> "Too Low"
      [] fb = "CORRECT"  -> "Correct"

C13_FeedbackCountsOnce ==
    [][ (Applied("guess") /\ last'.outcome = "Feedback") =>
          /\ tries' = tries + 1
          /\ finished' = (last'.fb = "CORRECT")
          /\ msg' = C13_Label(last'.fb) \o ". Total guess " \o ToString(tries') ]_vars

\* C14: every 2xx guess response that carries no recognised feedback token
\* yields a Message outcome and never an Error: lastError stays empty,
\* guessCount increases by 1, and the message text is the trimmed body text,
\* else the JSON message or result string, else "Submitted.".
C14_NoToken ==
    /\ GuessAppliedSeen
    /\ SeenOk
    /\ IF SeenJson
       THEN \A f \in {"feedback", "message", "result"} :
                ~IsLiteral(Get(seen.body.json, f))
       ELSE Join(Trim(seen.body.text)) \notin {"TOO_LOW", "TOO_HIGH", "CORRECT"}

C14_Text ==
    LET t == Join(Trim(seen.body.text))
        m == Get(seen.body.json, "message")
        r == Get(seen.body.json, "result")
    IN  IF ~SeenJson /\ t # "" THEN t
        ELSE IF SeenJson /\ m.t = "str" THEN m.v
        ELSE IF SeenJson /\ r.t = "str" THEN r.v
        ELSE "Submitted."

C14_AmbiguousIsMessage ==
    C14_NoToken =>
        /\ last.outcome = "Message"
        /\ error = ""
        /\ tries >= 1
        /\ msg = C14_Text \o ". Total guess " \o ToString(tries)

----------------------------------------------------------------------------
\* C15: a successful start yields started = true, finished = false,
\* guessCount = 0 and empty lastMessage and lastError; a failed start leaves
\* started, finished and guessCount as they were and sets lastError to the
\* failure's message.
C15_StartOutcome ==
    [][ Applied("start") =>
          IF last'.outcome = "Success"
          THEN started' /\ ~finished' /\ tries' = 0 /\ msg' = "" /\ error' = ""
          ELSE /\ started' = started /\ finished' = finished /\ tries' = tries
               /\ error' \in FailureTexts ]_vars

C15_Witness ==
    /\ last = Step("start", "apply", "Error", "none")
    /\ ~started
    /\ error = "session expired"
    /\ tries = 0
    /\ ~loading

\* C16: started changes from false to true only in the step that applies a
\* successful start response, and once true it is never set back to false.
C16_OnlyStartLeavesIdle ==
    /\ [][ (~started /\ started') =>
             (Applied("start") /\ last'.outcome = "Success") ]_vars
    /\ [][ started => started' ]_vars

C16_Witness ==
    /\ started
    /\ last = Step("start", "apply", "Success", "none")
    /\ inflight = <<>>

----------------------------------------------------------------------------
(* The sequence specification: one user plays start, 500, 250, 375, typing *)
(* the next number only after the previous answer was shown; the server    *)
(* answers TOO_HIGH, TOO_LOW, CORRECT in any of the encodings the client   *)
(* accepts.  `seen` keeps the last answer.                                 *)

Guess500 == <<"5", "0", "0">>
Guess250 == <<"2", "5", "0">>
Guess375 == <<"3", "7", "5">>

\* What the server answers to each of the three numbers.
SeqFeedbackFor(v) ==
    CASE v = Guess500 -> "TOO_HIGH"
      [] v = Guess250 -> "TOO_LOW"
      [] v = Guess375 -> "CORRECT"

SeqStatuses == {200, 201, 204, 299}

SeqForms(fb) ==
    { <<JsonCt, JsonBody(With("feedback", Str(fb)))>>,
      <<JsonCharsetCt, JsonBody(With("message", Str(fb)))>>,
      <<JsonCt, JsonBody(With("result", Str(fb)))>>,
      <<TextCt, Body(<<" ", fb, "\n">>, Unparseable)>>,
      <<NoHeader, Body(<<fb>>, Unparseable)>> }

SeqAnswers(fb) == { Http(st, f[1], f[2]) : st \in SeqStatuses, f \in SeqForms(fb) }

SeqStartAnswers ==
    { Http(st, ct, EmptyBody) : st \in SeqStatuses, ct \in {JsonCt, TextCt, NoHeader} }

\* The number the user types after what was shown last.
SeqType ==
    /\ inflight = <<>>
    /\ value = <<>>
    /\ \/ last = Step("start", "apply", "Success", "none") /\ onChange(Guess500)
       \/ last = Step("guess", "apply", "Feedback", "TOO_HIGH") /\ onChange(Guess250)
       \/ last = Step("guess", "apply", "Feedback", "TOO_LOW") /\ onChange(Guess375)

\* The Guess button, as in ClickGuess, for as many guesses as the sequence has.
SeqClickGuess ==
    started /\ ~loading /\ ~isBlank(value) /\ submitGuess /\ UNCHANGED seen

SeqStartDone ==
    \E i \in 1..Len(inflight), res \in SeqStartAnswers :
        startGameResume(i, res) /\ seen' = res

SeqGuessDone ==
    \E i \in 1..Len(inflight) :
        /\ inflight[i].op = "guess"
        /\ \E res \in SeqAnswers(SeqFeedbackFor(value)) :
               submitGuessResume(i, res) /\ seen' = res

SeqNext ==
    \/ ClickStart
    \/ SeqStartDone
    \/ SeqType
    \/ SeqClickGuess
    \/ SeqGuessDone

SeqSpec == Init /\ [][SeqNext]_vars

\* C17: in the run start, guess(500) -> TOO_HIGH, guess(250) -> TOO_LOW,
\* guess(375) -> CORRECT, guessCount is 1, 2, 3 after the three outcomes,
\* finished stays false until the third, and the run ends with guessCount = 3
\* and finished = true.
C17_CountAfter(fb) ==
    CASE fb = "TOO_HIGH" -> 1
      [] fb = "TOO_LOW"  -> 2
      [] fb = "CORRECT"  -> 3

C17_SequenceCounts ==
    /\ tries \in 0..3
    /\ finished <=> tries = 3
    /\ (last.op = "guess" /\ last.phase = "apply") =>
          /\ last.outcome = "Feedback"
          /\ last.fb = SeqFeedbackFor(IF tries = 1 THEN Guess500
                                      ELSE IF tries = 2 THEN Guess250 ELSE Guess375)
          /\ tries = C17_CountAfter(last.fb)
    /\ (value = Guess250 => tries = 1)
    /\ (value = Guess375 => tries = 2)
    /\ (~ENABLED SeqNext => (tries = 3 /\ finished))

C17_Witness ==
    /\ finished
    /\ tries = 3
    /\ msg = "Correct. Total guess 3"
    /\ last = Step("guess", "apply", "Feedback", "CORRECT")
    /\ inflight = <<>>

----------------------------------------------------------------------------
\* C18: once finished is true it stays true until a successful reset or start
\* is applied; a further guess, whatever its outcome, does not make the
\* session Active again.
C18_FinishedUntilReset ==
    [][ (finished /\ ~finished') =>
          /\ Applied("reset") \/ Applied("start")
          /\ last'.outcome = "Success" ]_vars

\* C19: a successful reset is not undone by a guess issued before it: the
\* first guess outcome applied after the reset's success leaves guessCount = 1.
C19_ResetNotUndone ==
    [][ ( /\ last = Step("reset", "apply", "Success", "none")
          /\ Applied("guess")
          /\ last'.outcome \in {"Feedback", "Message"} ) => tries' = 1 ]_vars

\* C20: pending is true whenever a start or guess request is in flight.
C20_PendingWhileInFlight ==
    (\E i \in 1..Len(inflight) : inflight[i].op \in {"start", "guess"}) => loading

====
